---- MODULE Spec2Model ----
(***************************************************************************)
(* Model of the auth support backend: the Redis cache adapter, the JWT     *)
(* support cache built on it, the refresh-token repository with its        *)
(* migration, and the configuration loader.                                *)
(*                                                                         *)
(* Time is counted in hours.  Keys and error texts are strings (built by   *)
(* concatenation exactly as the code builds them); stored values are       *)
(* sequences of one-character strings so that integer formatting and       *)
(* parsing can be computed.                                                *)
(***************************************************************************)
EXTENDS Integers, Sequences, FiniteSets, TLC

VARIABLES
    now,      \* clock of the application and of the key-value store
    store,    \* key-value store: key -> [val, hasTTL, exp]
    last,     \* the most recent call: operation, arguments, result, error, adapter calls, log levels
    blTok,    \* history: per token, the expiresAt of the latest effective BlacklistToken still ahead (0: none)
    ipRun,    \* history: per counter key, the current run of successful LogIPAttempt calls
    dbNow,    \* clock of the relational store (NOW())
    rows,     \* table refresh_tokens: id -> row
    nextID,   \* the SERIAL sequence of refresh_tokens.id
    marked,   \* history: ids of stored tokens for which MarkAsUsed has returned success
    proc,     \* concurrent callers of the cache: per caller, the call under way and its position
    schema,   \* relations of the database: the <<table, column>> pairs that exist
    conf      \* the process's configuration: environment, config file, initOnce, globalConfig

vars == <<now, store, last, blTok, ipRun, dbNow, rows, nextID, marked, proc, schema, conf>>
cacheVars == <<now, store, blTok, ipRun>>
repoVars == <<dbNow, rows, nextID, marked>>
procVars == <<proc>>
setupVars == <<schema, conf>>

---------------------------------------------------------------------------
(* Bounds *)

MaxTime == 32
TickStep == 8
MaxAttempts == 3

---------------------------------------------------------------------------
(* Program constants *)

TokenBlacklistPrefix == "blacklist:token:"
UserBlacklistPrefix == "blacklist:user:"
IPAttemptPrefix == "ip_attempt:"
IPAttemptTTL == 24
Blacklisted == <<"b", "l", "a", "c", "k", "l", "i", "s", "t", "e", "d">>

---------------------------------------------------------------------------
(* Inputs *)

TokenIDs == {"t1", "t2"}
UserIDs == {"u", "u:1"}
IPPairs == {<<"u", "x">>, <<"u", "1:x">>, <<"u:1", "x">>}
QuietPairs == {<<"u", "x">>}
ExpiresAtChoices == {now - TickStep, now, now + TickStep, now + 2 * TickStep}
Durations == {0, TickStep, 2 * TickStep}

---------------------------------------------------------------------------
(* Errors: Go error values as their Error() text *)

Nil == "<nil>"
RedisNil == "redis: nil"
TransportErr == "dial tcp: connection refused"
NotAnInteger == "ERR value is not an integer or out of range"
Errorf(prefix, err) == prefix \o err

---------------------------------------------------------------------------
(* Integer formatting and parsing *)

DigitChars == <<"0", "1", "2", "3", "4", "5", "6", "7", "8", "9">>
IsDigit(c) == \E d \in 1..10 : DigitChars[d] = c
DigitVal(c) == (CHOOSE d \in 1..10 : DigitChars[d] = c) - 1

RECURSIVE Itoa(_)
Itoa(n) ==
    IF n < 0 THEN <<"-">> \o Itoa(-n)
    ELSE IF n < 10 THEN <<DigitChars[n + 1]>>
    ELSE Itoa(n \div 10) \o <<DigitChars[(n % 10) + 1]>>

RECURSIVE ParseUint(_, _)
ParseUint(s, acc) ==
    IF s = <<>> THEN [err |-> Nil, n |-> acc]
    ELSE IF ~IsDigit(Head(s)) THEN [err |-> "invalid syntax", n |-> 0]
    ELSE ParseUint(Tail(s), acc * 10 + DigitVal(Head(s)))

ParseIntLenient(s) ==
    IF s = <<>> \/ ~IsDigit(Head(s)) THEN [err |-> Nil, n |-> 0]
    ELSE ParseUint(s, 0)

ParseInt(s) ==
    IF s = <<>> THEN [err |-> "invalid syntax", n |-> 0]
    ELSE LET neg == Head(s) = "-"
             body == IF Head(s) \in {"+", "-"} THEN Tail(s) ELSE s
         IN  IF body = <<>> THEN [err |-> "invalid syntax", n |-> 0]
             ELSE LET u == ParseUint(body, 0)
                  IN  IF u.err # Nil THEN u
                      ELSE [err |-> Nil, n |-> IF neg THEN 0 - u.n ELSE u.n]

---------------------------------------------------------------------------
(* The key-value engine, one command at a time *)

Entry(v, ttl) == [val |-> v, hasTTL |-> ttl > 0, exp |-> IF ttl > 0 THEN now + ttl ELSE 0]
Expired(e, t) == e.hasTTL /\ t >= e.exp
Live(s, key) == key \in DOMAIN s /\ ~Expired(s[key], now)
Put(s, key, e) == [k \in DOMAIN s \cup {key} |-> IF k = key THEN e ELSE s[k]]
Drop(s, key) == [k \in DOMAIN s \ {key} |-> s[k]]

RedisSET(s, key, data, ttl) == Put(s, key, Entry(data, ttl))

RedisGET(s, key) ==
    IF Live(s, key) THEN [val |-> s[key].val, err |-> Nil]
    ELSE [val |-> <<>>, err |-> RedisNil]

RedisEXISTS(s, key) == IF Live(s, key) THEN 1 ELSE 0

RedisINCRBySet(s, key) ==
    IF ~Live(s, key)
    THEN [store |-> Put(s, key, Entry(Itoa(1), 0)), val |-> 1, err |-> Nil]
    ELSE LET p == ParseInt(s[key].val)
         IN  IF p.err # Nil \/ Itoa(p.n) # s[key].val
             THEN [store |-> s, val |-> 0, err |-> NotAnInteger]
             ELSE [store |-> Put(s, key, Entry(Itoa(p.n + 1), 0)),
                   val |-> p.n + 1, err |-> Nil]

RedisINCR(s, key) ==
    IF ~Live(s, key)
    THEN [store |-> Put(s, key, Entry(Itoa(1), 0)), val |-> 1, err |-> Nil]
    ELSE LET p == ParseInt(s[key].val)
         IN  IF p.err # Nil \/ Itoa(p.n) # s[key].val
             THEN [store |-> s, val |-> 0, err |-> NotAnInteger]
             ELSE [store |-> Put(s, key, [s[key] EXCEPT !.val = Itoa(p.n + 1)]),
                   val |-> p.n + 1, err |-> Nil]

RedisEXPIREIfNoTTL(s, key, ttl) ==
    IF ~Live(s, key) THEN s
    ELSE IF s[key].hasTTL THEN s
    ELSE IF ttl <= 0 THEN Drop(s, key)
    ELSE Put(s, key, [s[key] EXCEPT !.hasTTL = TRUE, !.exp = now + ttl])

RedisEXPIRE(s, key, ttl) ==
    IF ~Live(s, key) THEN s
    ELSE IF ttl <= 0 THEN Drop(s, key)
    ELSE Put(s, key, [s[key] EXCEPT !.hasTTL = TRUE, !.exp = now + ttl])

RedisDEL(s, key) == Drop(s, key)

RedisSETNXOverwriting(s, key, data, ttl) ==
    [store |-> Put(s, key, Entry(data, ttl)), ok |-> ~Live(s, key)]

RedisSETNX(s, key, data, ttl) ==
    IF Live(s, key) THEN [store |-> s, ok |-> FALSE]
    ELSE [store |-> Put(s, key, Entry(data, ttl)), ok |-> TRUE]

---------------------------------------------------------------------------
(* Cache adapter (redisCache): each method returns the new store, its       *)
(* result, its error and the log levels it emitted.  fault # "none" is a      *)
(* transport failure: the command does not reach the engine.                *)

CacheSetQuoted(s, key, value, ttl, fault) ==
    IF fault # "none"
    THEN [store |-> s, err |-> Errorf("failed to set cache value: ", TransportErr),
          logs |-> <<"Error">>]
    ELSE [store |-> RedisSET(s, key, <<"\"">> \o value \o <<"\"">>, ttl), err |-> Nil,
          logs |-> <<>>]

CacheSet(s, key, value, ttl, fault) ==
    IF fault # "none"
    THEN [store |-> s, err |-> Errorf("failed to set cache value: ", TransportErr),
          logs |-> <<"Error">>]
    ELSE [store |-> RedisSET(s, key, value, ttl), err |-> Nil, logs |-> <<>>]

CacheGetBareMessage(s, key, fault) ==
    IF fault # "none"
    THEN [val |-> <<>>, err |-> Errorf("failed to get cache value: ", TransportErr),
          logs |-> <<"Error">>]
    ELSE LET r == RedisGET(s, key)
         IN  IF r.err = RedisNil
             THEN [val |-> <<>>, err |-> "key not found", logs |-> <<>>]
             ELSE [val |-> r.val, err |-> Nil, logs |-> <<>>]

CacheGet(s, key, fault) ==
    IF fault # "none"
    THEN [val |-> <<>>, err |-> Errorf("failed to get cache value: ", TransportErr),
          logs |-> <<"Error">>]
    ELSE LET r == RedisGET(s, key)
         IN  IF r.err = RedisNil
             THEN [val |-> <<>>, err |-> Errorf("key not found: ", key), logs |-> <<>>]
             ELSE [val |-> r.val, err |-> Nil, logs |-> <<>>]

CacheExists(s, key, fault) ==
    IF fault # "none"
    THEN [ret |-> FALSE, err |-> Errorf("failed to check key existence: ", TransportErr),
          logs |-> <<"Error">>]
    ELSE [ret |-> RedisEXISTS(s, key) > 0, err |-> Nil, logs |-> <<>>]

CacheDelete(s, key, fault) ==
    IF fault # "none"
    THEN [store |-> s, err |-> Errorf("failed to delete cache value: ", TransportErr),
          logs |-> <<"Error">>]
    ELSE [store |-> RedisDEL(s, key), err |-> Nil, logs |-> <<>>]

CacheSetNX(s, key, value, ttl, fault) ==
    IF fault # "none"
    THEN [store |-> s, ok |-> FALSE,
          err |-> Errorf("failed to set cache value with SetNX: ", TransportErr),
          logs |-> <<"Error">>]
    ELSE LET r == RedisSETNX(s, key, value, ttl)
         IN  [store |-> r.store, ok |-> r.ok, err |-> Nil, logs |-> <<>>]

CacheIncrement(s, key, fault) ==
    IF fault # "none"
    THEN [store |-> s, val |-> 0,
          err |-> Errorf("failed to increment cache value: ", TransportErr),
          logs |-> <<"Error">>]
    ELSE LET r == RedisINCR(s, key)
         IN  IF r.err # Nil
             THEN [store |-> r.store, val |-> 0,
                   err |-> Errorf("failed to increment cache value: ", r.err),
                   logs |-> <<"Error">>]
             ELSE [store |-> r.store, val |-> r.val, err |-> Nil, logs |-> <<>>]

(* The pipeline sends INCR and EXPIRE together; Exec reports the first      *)
(* error of the batch.  Faults: "down" (nothing reaches the engine),        *)
(* "partial" (INCR applied, EXPIRE not), "reply_lost" (both applied, the    *)
(* reply is not received).                                                  *)
PipelineFaults == {"none", "down", "partial", "reply_lost"}

CacheIncrementWithTTLIfNew(s, key, ttl, fault) ==
    LET incr == RedisINCR(s, key)
        both == IF incr.val = 1 THEN RedisEXPIRE(incr.store, key, ttl) ELSE incr.store
        failed(st, e) == [store |-> st, val |-> 0,
                          err |-> Errorf("failed to increment with TTL: ", e),
                          logs |-> <<"Error">>]
    IN  CASE fault = "down" -> failed(s, TransportErr)
          [] fault = "partial" -> failed(incr.store, TransportErr)
          [] fault = "reply_lost" -> failed(both, TransportErr)
          [] OTHER -> IF incr.err # Nil THEN failed(both, incr.err)
                      ELSE [store |-> both, val |-> incr.val, err |-> Nil, logs |-> <<>>]

CacheIncrementWithTTL(s, key, ttl, fault) ==
    LET incr == RedisINCR(s, key)
        both == RedisEXPIRE(incr.store, key, ttl)
        failed(st, e) == [store |-> st, val |-> 0,
                          err |-> Errorf("failed to increment with TTL: ", e),
                          logs |-> <<"Error">>]
    IN  CASE fault = "down" -> failed(s, TransportErr)
          [] fault = "partial" -> failed(incr.store, TransportErr)
          [] fault = "reply_lost" -> failed(both, TransportErr)
          [] OTHER -> IF incr.err # Nil THEN failed(both, incr.err)
                      ELSE [store |-> both, val |-> incr.val, err |-> Nil, logs |-> <<>>]

---------------------------------------------------------------------------
(* JWT support cache (jwtCache) *)

TokenKey(tokenID) == TokenBlacklistPrefix \o tokenID
UserKey(userID) == UserBlacklistPrefix \o userID
IPKey(userID, ipAddress) == IPAttemptPrefix \o userID \o ":" \o ipAddress
IPKeys == {IPKey(p[1], p[2]) : p \in IPPairs}

NoArgs == [none |-> TRUE]
NoResult == [none |-> TRUE]
Faults == {"none", "down"}

IssuedWithRetry(calls, err) ==
    IF err # Nil /\ calls # <<>> THEN calls \o <<calls[Len(calls)]>> ELSE calls

(* The requests a call has sent when it returns: each is sent once, and an  *)
(* error is returned as it arrives.                                         *)
Issued(calls, err) == calls

Call(op, args, fault, ret, err, calls, logs) ==
    [op |-> op, args |-> args, fault |-> fault, ret |-> ret, err |-> err,
     calls |-> Issued(calls, err), logs |-> logs]

UntilAsDuration(expiresAt) == expiresAt

Until(expiresAt) == expiresAt - now

AlreadyExpiredStrict(ttl) == ttl < 0

AlreadyExpired(ttl) == ttl <= 0

BlacklistToken(tokenID, expiresAt, fault) ==
    LET key == TokenKey(tokenID)
        ttl == Until(expiresAt)
    IN  IF AlreadyExpired(ttl)
        THEN /\ last' = Call("BlacklistToken", [tokenID |-> tokenID, expiresAt |-> expiresAt],
                            fault, NoResult, Nil, <<>>, <<"Debug">>)
             /\ UNCHANGED <<now, store, blTok, ipRun, repoVars, procVars, setupVars>>
        ELSE LET r == CacheSet(store, key, Blacklisted, ttl, fault)
             IN  /\ store' = r.store
                 /\ last' = IF r.err # Nil
                            THEN Call("BlacklistToken", [tokenID |-> tokenID, expiresAt |-> expiresAt],
                                      fault, NoResult,
                                      Errorf("failed to blacklist token: ", r.err),
                                      <<"Set">>, r.logs \o <<"Error">>)
                            ELSE Call("BlacklistToken", [tokenID |-> tokenID, expiresAt |-> expiresAt],
                                      fault, NoResult, Nil,
                                      <<"Set">>, r.logs \o <<"Info">>)
                 /\ blTok' = IF r.err = Nil THEN [blTok EXCEPT ![tokenID] = expiresAt] ELSE blTok
                 /\ UNCHANGED <<now, ipRun, repoVars, procVars, setupVars>>

IsTokenBlacklisted(tokenID, fault) ==
    LET key == TokenKey(tokenID)
        r == CacheExists(store, key, fault)
    IN  /\ last' = IF r.err # Nil
                   THEN Call("IsTokenBlacklisted", [tokenID |-> tokenID], fault, [exists |-> FALSE],
                             Errorf("failed to check token blacklist status: ", r.err),
                             <<"Exists">>, r.logs \o <<"Error">>)
                   ELSE Call("IsTokenBlacklisted", [tokenID |-> tokenID], fault,
                             [exists |-> r.ret], Nil, <<"Exists">>, r.logs)
        /\ UNCHANGED <<cacheVars, repoVars, procVars, setupVars>>

BlacklistUser(userID, duration, fault) ==
    LET key == UserKey(userID)
        r == CacheSet(store, key, Blacklisted, duration, fault)
    IN  /\ store' = r.store
        /\ last' = IF r.err # Nil
                   THEN Call("BlacklistUser", [userID |-> userID, duration |-> duration], fault, NoResult,
                             Errorf("failed to blacklist user: ", r.err),
                             <<"Set">>, r.logs \o <<"Error">>)
                   ELSE Call("BlacklistUser", [userID |-> userID, duration |-> duration], fault, NoResult, Nil,
                             <<"Set">>, r.logs \o <<"Info">>)
        /\ UNCHANGED <<now, blTok, ipRun, repoVars, procVars, setupVars>>

IsUserBlacklisted(userID, fault) ==
    LET key == UserKey(userID)
        r == CacheExists(store, key, fault)
    IN  /\ last' = IF r.err # Nil
                   THEN Call("IsUserBlacklisted", [userID |-> userID], fault, [exists |-> FALSE],
                             Errorf("failed to check user blacklist status: ", r.err),
                             <<"Exists">>, r.logs \o <<"Error">>)
                   ELSE Call("IsUserBlacklisted", [userID |-> userID], fault,
                             [exists |-> r.ret], Nil, <<"Exists">>, r.logs)
        /\ UNCHANGED <<cacheVars, repoVars, procVars, setupVars>>

NoRun == [n |-> 0, until |-> 0]
Broken == [n |-> 0 - 1, until |-> 0]

(* Bookkeeping of the run of successful LogIPAttempt calls on one counter:  *)
(* a successful call starts a run at 1 when the counter was absent and      *)
(* extends a live run by one; a failed call ends the run, and no new run    *)
(* starts while the counter it left behind is still present.                *)
RunAfter(run, wasLive, ok, isLive) ==
    IF ok
    THEN IF run.n >= 1 THEN [n |-> run.n + 1, until |-> now + IPAttemptTTL]
         ELSE IF wasLive THEN Broken
         ELSE [n |-> 1, until |-> now + IPAttemptTTL]
    ELSE IF isLive THEN Broken ELSE NoRun

CounterBelowCap(key) ==
    Live(store, key) /\ ParseInt(store[key].val).err = Nil
        => ParseInt(store[key].val).n < MaxAttempts

LogIPAttempt(userID, ipAddress, fault) ==
    LET key == IPKey(userID, ipAddress)
        ttl == IPAttemptTTL
        r == CacheIncrementWithTTL(store, key, ttl, fault)
        args == [userID |-> userID, ipAddress |-> ipAddress]
    IN  /\ CounterBelowCap(key)
        /\ store' = r.store
        /\ last' = IF r.err # Nil
                   THEN Call("LogIPAttempt", args, fault, NoResult,
                             Errorf("failed to log IP attempt: ", r.err),
                             <<"IncrementWithTTL">>, r.logs \o <<"Error">>)
                   ELSE Call("LogIPAttempt", args, fault, NoResult, Nil,
                             <<"IncrementWithTTL">>, r.logs \o <<"Info">>)
        /\ ipRun' = [ipRun EXCEPT ![key] =
                        RunAfter(@, Live(store, key), r.err = Nil, Live(r.store, key))]
        /\ UNCHANGED <<now, blTok, repoVars, procVars, setupVars>>

GetIPAttempts(userID, ipAddress, fault) ==
    LET key == IPKey(userID, ipAddress)
        r == CacheGet(store, key, fault)
        p == ParseInt(r.val)
        args == [userID |-> userID, ipAddress |-> ipAddress]
    IN  /\ last' = IF r.err # Nil
                   THEN IF r.err = Errorf("key not found: ", key)
                        THEN Call("GetIPAttempts", args, fault, [count |-> 0], Nil, <<"Get">>, r.logs)
                        ELSE Call("GetIPAttempts", args, fault, [count |-> 0],
                                  Errorf("failed to get IP attempts: ", r.err),
                                  <<"Get">>, r.logs \o <<"Error">>)
                   ELSE IF p.err # Nil
                        THEN Call("GetIPAttempts", args, fault, [count |-> 0],
                                  Errorf("failed to parse IP attempts count: ", p.err),
                                  <<"Get">>, r.logs \o <<"Error">>)
                        ELSE Call("GetIPAttempts", args, fault, [count |-> p.n], Nil, <<"Get">>, r.logs)
        /\ UNCHANGED <<cacheVars, repoVars, procVars, setupVars>>

---------------------------------------------------------------------------
(* Passage of time: the engine drops every key whose TTL has elapsed *)

Purge(s, t) == [k \in {x \in DOMAIN s : ~Expired(s[x], t)} |-> s[k]]

Tick ==
    /\ now + TickStep <= MaxTime
    /\ now' = now + TickStep
    /\ store' = Purge(store, now')
    /\ last' = Call("Tick", NoArgs, "none", NoResult, Nil, <<>>, <<>>)
    /\ blTok' = [t \in DOMAIN blTok |-> IF blTok[t] <= now' THEN 0 ELSE blTok[t]]
    /\ ipRun' = [k \in DOMAIN ipRun |->
                    IF ipRun[k].n >= 1 /\ ipRun[k].until <= now' THEN NoRun
                    ELSE IF ipRun[k] = Broken /\ ~(k \in DOMAIN Purge(store, now')) THEN NoRun
                    ELSE ipRun[k]]
    /\ UNCHANGED <<repoVars, procVars, setupVars>>

---------------------------------------------------------------------------
(* Callers that use the cache at the same time.  A call is sent, the engine *)
(* executes its commands one at a time in the order they arrive, and the    *)
(* call returns with the replies.                                           *)

NumCallers == 3
Callers == 1..NumCallers

Ready == [op |-> "none", pc |-> "ready", n |-> 0, won |-> FALSE, ttl |-> 0]

---------------------------------------------------------------------------
(* Relations of the database.  A relation exists as the set of its          *)
(* <<table, column>> pairs; a statement executes only when every pair it    *)
(* names exists.                                                            *)

StatementTable == "refresh_tokens"

AllColumns ==
    {"id", "user_id", "token_hash", "user_agent", "ip_address", "created_at",
     "expires_at", "is_used", "updated_at"}

RepoOps ==
    {"Create", "GetActiveByUserID", "GetByID", "MarkAsUsed", "DeleteAllByUserID",
     "Delete", "CleanExpired", "GetAllActiveByUserID"}

StatementColumns(op) ==
    CASE op = "Create" ->
            {"user_id", "token_hash", "user_agent", "ip_address", "expires_at",
             "id", "created_at", "updated_at"}
      [] op \in {"GetActiveByUserID", "GetByID", "GetAllActiveByUserID"} -> AllColumns
      [] op = "MarkAsUsed" -> {"is_used", "updated_at", "id"}
      [] op = "DeleteAllByUserID" -> {"user_id"}
      [] op = "Delete" -> {"id"}
      [] op = "CleanExpired" -> {"expires_at"}

Needs(op) == {<<StatementTable, c>> : c \in StatementColumns(op)}

MigrationTable == "jwt"

MigrationColumns ==
    {"id", "user_id", "token_hash", "user_agent", "ip_address", "created_at",
     "expires_at", "is_used"}

MigrationUp == {<<MigrationTable, c>> : c \in MigrationColumns}

(* The migration library records the applied version in its own relation. *)
VersionRelation == <<"schema_migrations", "version">>

EmptyDatabase == {}

(* A database in which every statement of the repository executes. *)
Provisioned == UNION {Needs(op) : op \in RepoOps}

---------------------------------------------------------------------------
(* Configuration (package config).  Server.Port stands for the string       *)
(* fields and Server.ReadTimeout for the Duration fields.  Durations are    *)
(* counted in milliseconds; texts are sequences of one-character strings.   *)

Millisecond == 1
Second == 1000 * Millisecond
Minute == 60 * Second

Unset == <<>>

DefaultPort == <<"8", "0", "8", "0">>
DefaultReadTimeout == 30 * Second

ZeroConfig == [port |-> <<>>, read_timeout |-> 0]

setDefaults(cfg) == [cfg EXCEPT !.port = DefaultPort, !.read_timeout = DefaultReadTimeout]

(* time.ParseDuration on a decimal count followed by one unit letter *)
UnitOf(u) == CASE u = "s" -> Second [] u = "m" -> Minute [] OTHER -> 0

ParseDuration(text) ==
    IF Len(text) < 2 THEN [ok |-> FALSE, d |-> 0]
    ELSE LET n == ParseUint(SubSeq(text, 1, Len(text) - 1), 0)
             unit == UnitOf(text[Len(text)])
         IN  IF n.err = Nil /\ unit # 0 THEN [ok |-> TRUE, d |-> n.n * unit]
             ELSE [ok |-> FALSE, d |-> 0]

(* A count of nanoseconds written mant * 10^exp, in milliseconds *)
RECURSIVE Pow10(_)
Pow10(e) == IF e = 0 THEN 1 ELSE 10 * Pow10(e - 1)

NanosecondsExp == 6
Nanoseconds(mant, exp) == mant * Pow10(exp - NanosecondsExp)

(* The duration a JSON value denotes: a number is a count of nanoseconds,   *)
(* a string is parsed by time.ParseDuration.                                *)
DurationOf(v) ==
    IF v.kind = "number" THEN [ok |-> TRUE, d |-> Nanoseconds(v.mant, v.exp)]
    ELSE ParseDuration(v.text)

(* Duration.UnmarshalJSON has a value receiver: it assigns the parsed     *)
(* value to its own copy and returns; the field keeps what it held.         *)
UnmarshalJSON(field, v) ==
    LET r == DurationOf(v) IN [ok |-> r.ok, field |-> field]

Missing == [kind |-> "missing"]

(* json.Decoder.Decode into the configuration: members the document lacks  *)
(* leave their fields alone; port precedes read_timeout in the document.    *)
Decode(cfg, doc) ==
    LET c1 == IF doc.port = Missing THEN cfg ELSE [cfg EXCEPT !.port = doc.port.text]
    IN  IF doc.read_timeout = Missing THEN [ok |-> TRUE, cfg |-> c1]
        ELSE LET u == UnmarshalJSON(c1.read_timeout, doc.read_timeout)
             IN  [ok |-> u.ok, cfg |-> [c1 EXCEPT !.read_timeout = u.field]]

NoFile == [kind |-> "absent"]
MalformedFile == [kind |-> "malformed"]

loadFromJSON(cfg, file) ==
    IF file.kind = "absent" THEN [ok |-> TRUE, cfg |-> cfg]
    ELSE IF file.kind = "malformed" THEN [ok |-> FALSE, cfg |-> cfg]
    ELSE Decode(cfg, file.doc)

(* env.Parse: a variable that is unset or empty leaves its field alone; a   *)
(* string field takes the text; a Duration field, an int64 that is not      *)
(* time.Duration, takes the decimal count of nanoseconds.                   *)
ParseNanoseconds(text) ==
    IF Len(text) <= NanosecondsExp THEN [ok |-> FALSE, d |-> 0]
    ELSE LET n == ParseUint(SubSeq(text, 1, Len(text) - NanosecondsExp), 0)
             tail == SubSeq(text, Len(text) - NanosecondsExp + 1, Len(text))
         IN  IF n.err = Nil /\ \A i \in DOMAIN tail : tail[i] = "0"
             THEN [ok |-> TRUE, d |-> n.n] ELSE [ok |-> FALSE, d |-> 0]

loadFromEnv(cfg, environ) ==
    LET c1 == IF environ.SERVER_PORT = Unset THEN cfg
              ELSE [cfg EXCEPT !.port = environ.SERVER_PORT]
        d == ParseNanoseconds(environ.SERVER_READ_TIMEOUT)
    IN  IF environ.SERVER_READ_TIMEOUT = Unset \/ ~d.ok THEN c1
        ELSE [c1 EXCEPT !.read_timeout = d.d]

(* validate: port "required,numeric", read_timeout "required,duration_gt0" *)
validate(cfg) ==
    /\ Len(cfg.port) > 0
    /\ \A i \in DOMAIN cfg.port : IsDigit(cfg.port[i])
    /\ cfg.read_timeout > 0

NoEnviron == [SERVER_PORT |-> Unset, SERVER_READ_TIMEOUT |-> Unset]

(* The process before its first GetConfig: initOnce not done, globalConfig  *)
(* the zero value.  loads counts the runs of the loading function.          *)
ProcessStart(environ, file) ==
    [environ |-> environ, file |-> file, done |-> FALSE, exited |-> FALSE,
     globalConfig |-> ZeroConfig, loads |-> 0]

---------------------------------------------------------------------------
(* Specification of the JWT support cache on the Redis adapter *)

---------------------------------------------------------------------------
(* Specification of the JWT support cache on the Redis adapter *)

Start(database, process) ==
    /\ now = 0
    /\ store = <<>>
    /\ last = Call("Init", NoArgs, "none", NoResult, Nil, <<>>, <<>>)
    /\ blTok = [t \in TokenIDs |-> 0]
    /\ ipRun = [k \in IPKeys |-> NoRun]
    /\ dbNow = 0
    /\ rows = <<>>
    /\ nextID = 1
    /\ marked = {}
    /\ proc = [c \in Callers |-> Ready]
    /\ schema = database
    /\ conf = process

Init == Start(Provisioned, ProcessStart(NoEnviron, NoFile))

NextBlacklist ==
    \/ \E t \in TokenIDs, e \in ExpiresAtChoices, f \in Faults : BlacklistToken(t, e, f)
    \/ \E t \in TokenIDs, f \in Faults : IsTokenBlacklisted(t, f)
    \/ \E u \in UserIDs, d \in Durations, f \in Faults : BlacklistUser(u, d, f)
    \/ \E u \in UserIDs, f \in Faults : IsUserBlacklisted(u, f)
    \/ \E p \in QuietPairs : LogIPAttempt(p[1], p[2], "none")
    \/ \E p \in QuietPairs : GetIPAttempts(p[1], p[2], "none")
    \/ Tick

SpecBlacklist == Init /\ [][NextBlacklist]_vars

(* The IP-attempt counters alone, with every pipeline fault *)
NextIP ==
    \/ \E p \in IPPairs, f \in PipelineFaults : LogIPAttempt(p[1], p[2], f)
    \/ \E p \in IPPairs, f \in Faults : GetIPAttempts(p[1], p[2], f)
    \/ Tick

SpecIP == Init /\ [][NextIP]_vars

(* The counters in a store that another writer shares: the adapter's Set   *)
(* is called directly on counter keys, with arbitrary text.                 *)
ForeignValues == {<<>>, <<"0">>, <<"-", "0">>, <<"2", "x">>}
ForeignTTLs == {0, TickStep}

AdapterSet(key, value, ttl, fault) ==
    LET r == CacheSet(store, key, value, ttl, fault)
    IN  /\ store' = r.store
        /\ last' = Call("Set", [key |-> key, value |-> value, ttl |-> ttl], fault, NoResult,
                        r.err, <<>>, r.logs)
        /\ ipRun' = IF r.err = Nil /\ key \in DOMAIN ipRun
                    THEN [ipRun EXCEPT ![key] = IF Live(r.store, key) THEN Broken ELSE NoRun]
                    ELSE ipRun
        /\ UNCHANGED <<now, blTok, repoVars, procVars, setupVars>>

NextShared ==
    \/ \E k \in IPKeys, v \in ForeignValues, d \in ForeignTTLs, f \in Faults :
          AdapterSet(k, v, d, f)
    \/ \E p \in IPPairs : LogIPAttempt(p[1], p[2], "none")
    \/ \E p \in IPPairs, f \in Faults : GetIPAttempts(p[1], p[2], f)
    \/ Tick

SpecShared == Init /\ [][NextShared]_vars

(* The adapter used directly, on keys of its own *)
AdapterKeys == {"hits", "seen"}
AdapterValues == {<<"a">>, <<"1">>}
AdapterTTLs == {0, TickStep, 2 * TickStep}

AdapterGet(key, fault) ==
    LET r == CacheGet(store, key, fault)
    IN  /\ last' = Call("Get", [key |-> key], fault, [value |-> r.val], r.err, <<>>, r.logs)
        /\ UNCHANGED <<cacheVars, repoVars, procVars, setupVars>>

AdapterDelete(key, fault) ==
    LET r == CacheDelete(store, key, fault)
    IN  /\ store' = r.store
        /\ last' = Call("Delete", [key |-> key], fault, NoResult, r.err, <<>>, r.logs)
        /\ ipRun' = IF r.err = Nil /\ key \in DOMAIN ipRun
                    THEN [ipRun EXCEPT ![key] = NoRun]
                    ELSE ipRun
        /\ UNCHANGED <<now, blTok, repoVars, procVars, setupVars>>

AdapterIncrement(key, fault) ==
    LET r == CacheIncrement(store, key, fault)
    IN  /\ CounterBelowCap(key)
        /\ store' = r.store
        /\ last' = Call("Increment", [key |-> key], fault, [count |-> r.val], r.err,
                        <<>>, r.logs)
        /\ ipRun' = IF r.err = Nil /\ key \in DOMAIN ipRun
                    THEN [ipRun EXCEPT ![key] = Broken]
                    ELSE ipRun
        /\ UNCHANGED <<now, blTok, repoVars, procVars, setupVars>>

AdapterIncrementWithTTL(key, ttl, fault) ==
    LET r == CacheIncrementWithTTL(store, key, ttl, fault)
    IN  /\ CounterBelowCap(key)
        /\ store' = r.store
        /\ last' = Call("IncrementWithTTL", [key |-> key, ttl |-> ttl], fault,
                        [count |-> r.val], r.err, <<>>, r.logs)
        /\ ipRun' = IF key \in DOMAIN ipRun
                    THEN [ipRun EXCEPT ![key] = IF Live(r.store, key) THEN Broken ELSE NoRun]
                    ELSE ipRun
        /\ UNCHANGED <<now, blTok, repoVars, procVars, setupVars>>

NextAdapter ==
    \/ \E k \in AdapterKeys, v \in AdapterValues, d \in AdapterTTLs, f \in Faults :
          AdapterSet(k, v, d, f)
    \/ \E k \in AdapterKeys, f \in Faults : AdapterGet(k, f)
    \/ \E k \in AdapterKeys, f \in Faults : AdapterDelete(k, f)
    \/ \E k \in AdapterKeys, f \in Faults : AdapterIncrement(k, f)
    \/ \E k \in AdapterKeys, d \in AdapterTTLs, f \in Faults : AdapterIncrementWithTTL(k, d, f)
    \/ Tick

SpecAdapter == Init /\ [][NextAdapter]_vars

(* Callers at the same time: each makes one call, LogIPAttempt on one pair  *)
(* or SetNX on one key.  The pipeline of IncrementWithTTL is not a          *)
(* transaction: the engine may execute commands of other callers between    *)
(* its INCR and its EXPIRE.  No time passes while the calls are under way.  *)
SharedPair == <<"u", "x">>
SharedKey == "lock"
CallerValue(c) == <<"c", ToString(c)>>

SendLogIPAttempt(c) ==
    /\ proc[c].pc = "ready"
    /\ proc' = [proc EXCEPT ![c] = [Ready EXCEPT !.op = "LogIPAttempt", !.pc = "sent"]]
    /\ UNCHANGED <<last, cacheVars, repoVars, setupVars>>

ExpireResult(incr) == 1

IncrResult(incr) == incr.val

ExecIncr(c) ==
    LET key == IPKey(SharedPair[1], SharedPair[2])
        incr == RedisINCR(store, key)
    IN  /\ proc[c].op = "LogIPAttempt" /\ proc[c].pc = "sent"
        /\ CounterBelowCap(key)
        /\ store' = incr.store
        /\ proc' = [proc EXCEPT ![c].pc = "incremented", ![c].n = IncrResult(incr)]
        /\ ipRun' = [ipRun EXCEPT ![key] = RunAfter(@, Live(store, key), TRUE, TRUE)]
        /\ UNCHANGED <<now, blTok, last, repoVars, setupVars>>

ExecExpire(c) ==
    LET key == IPKey(SharedPair[1], SharedPair[2])
    IN  /\ proc[c].op = "LogIPAttempt" /\ proc[c].pc = "incremented"
        /\ store' = RedisEXPIRE(store, key, IPAttemptTTL)
        /\ proc' = [proc EXCEPT ![c].pc = "done"]
        /\ last' = Call("LogIPAttempt", [userID |-> SharedPair[1], ipAddress |-> SharedPair[2]],
                        "none", NoResult, Nil, <<"IncrementWithTTL">>, <<"Info">>)
        /\ UNCHANGED <<now, blTok, ipRun, repoVars, setupVars>>

SendSetNX(c, ttl) ==
    /\ proc[c].pc = "ready"
    /\ proc' = [proc EXCEPT ![c] = [Ready EXCEPT !.op = "SetNX", !.pc = "sent", !.ttl = ttl]]
    /\ UNCHANGED <<last, cacheVars, repoVars, setupVars>>

ExecSetNX(c) ==
    LET r == CacheSetNX(store, SharedKey, CallerValue(c), proc[c].ttl, "none")
    IN  /\ proc[c].op = "SetNX" /\ proc[c].pc = "sent"
        /\ store' = r.store
        /\ proc' = [proc EXCEPT ![c].pc = "done", ![c].won = r.ok]
        /\ last' = Call("SetNX",
                        [key |-> SharedKey, value |-> CallerValue(c), ttl |-> proc[c].ttl],
                        "none", [ok |-> r.ok], r.err, <<>>, r.logs)
        /\ UNCHANGED <<now, blTok, ipRun, repoVars, setupVars>>

NextConcurrent ==
    \/ \E c \in Callers : SendLogIPAttempt(c)
    \/ \E c \in Callers : ExecIncr(c)
    \/ \E c \in Callers : ExecExpire(c)
    \/ \E c \in Callers, d \in AdapterTTLs : SendSetNX(c, d)
    \/ \E c \in Callers : ExecSetNX(c)

SpecConcurrent == Init /\ [][NextConcurrent]_vars

---------------------------------------------------------------------------
(* Specification of the configuration loader.  The process starts with any  *)
(* environment and any config file; both can change while it runs.          *)

Port9090 == <<"9", "0", "9", "0">>
Port7070 == <<"7", "0", "7", "0">>
EnvPorts == {Unset, Port9090, <<"w", "e", "b">>}
EnvReadTimeouts == {Unset, <<"4", "5", "0", "0", "0", "0", "0", "0", "0", "0", "0">>}
Environs == [SERVER_PORT : EnvPorts, SERVER_READ_TIMEOUT : EnvReadTimeouts]

FilePorts == {Missing, [kind |-> "string", text |-> Port7070]}
FileReadTimeouts ==
    {Missing, [kind |-> "string", text |-> <<"5", "s">>],
     [kind |-> "number", mant |-> 7, exp |-> 9],
     [kind |-> "string", text |-> <<"s", "o", "o", "n">>]}
Documents == [port : FilePorts, read_timeout : FileReadTimeouts]
Files == {NoFile, MalformedFile} \cup {[kind |-> "document", doc |-> d] : d \in Documents}

GetConfig ==
    /\ ~conf.exited
    /\ IF conf.done
       THEN /\ conf' = conf
            /\ last' = Call("GetConfig", NoArgs, "none", [config |-> conf.globalConfig],
                            Nil, <<>>, <<>>)
       ELSE LET fromJSON == loadFromJSON(setDefaults(conf.globalConfig), conf.file)
                cfg == loadFromEnv(fromJSON.cfg, conf.environ)
                logs == IF fromJSON.ok THEN <<>> ELSE <<"Printf">>
            IN  IF validate(cfg)
                THEN /\ conf' = [conf EXCEPT !.done = TRUE, !.globalConfig = cfg,
                                             !.loads = @ + 1]
                     /\ last' = Call("GetConfig", NoArgs, "none", [config |-> cfg],
                                     Nil, <<>>, logs)
                ELSE /\ conf' = [conf EXCEPT !.exited = TRUE, !.globalConfig = cfg,
                                             !.loads = @ + 1]
                     /\ last' = Call("GetConfig", NoArgs, "none", NoResult,
                                     "config validation failed", <<>>, logs \o <<"Fatalf">>)
    /\ UNCHANGED <<cacheVars, repoVars, procVars, schema>>

Setenv(environ) ==
    /\ ~conf.exited
    /\ environ # conf.environ
    /\ conf' = [conf EXCEPT !.environ = environ]
    /\ last' = Call("Setenv", [environ |-> environ], "none", NoResult, Nil, <<>>, <<>>)
    /\ UNCHANGED <<cacheVars, repoVars, procVars, schema>>

WriteFile(file) ==
    /\ ~conf.exited
    /\ file # conf.file
    /\ conf' = [conf EXCEPT !.file = file]
    /\ last' = Call("WriteFile", [file |-> file], "none", NoResult, Nil, <<>>, <<>>)
    /\ UNCHANGED <<cacheVars, repoVars, procVars, schema>>

InitConfig == \E environ \in Environs, file \in Files : Start(Provisioned, ProcessStart(environ, file))

NextConfig ==
    \/ GetConfig
    \/ \E environ \in Environs : Setenv(environ)
    \/ \E file \in Files : WriteFile(file)

SpecConfig == InitConfig /\ [][NextConfig]_vars

---------------------------------------------------------------------------
(* Refresh-token repository (refreshTokenRepo) over table refresh_tokens.   *)
(* A row is [id, user_id, token_hash, user_agent, ip_address, created_at,   *)
(* expires_at, is_used, updated_at]; NOW() is dbNow.  fault # "none" is a     *)
(* failure of the statement: it is not executed.                            *)

MaxTokens == 3
MaxDbTime == 2

RepoUsers == {"user-1", "user-2"}
ExpiryChoices == {dbNow, MaxDbTime + 1}
RowIDs == 1..MaxTokens
NewTokens ==
    [ID : {0}, UserID : RepoUsers, TokenHash : {"test-hash"}, UserAgent : {"test-agent"},
     IPAddress : {"192.168.1.1"}, CreatedAt : {0}, ExpiresAt : ExpiryChoices,
     IsUsed : BOOLEAN, UpdatedAt : {0}]

DbErr == "pq: connection refused"
ErrNoRows == "sql: no rows in result set"

InsertedRowWithCallerFlag(id, token) ==
    [id |-> id, user_id |-> token.UserID, token_hash |-> token.TokenHash,
     user_agent |-> token.UserAgent, ip_address |-> token.IPAddress,
     created_at |-> dbNow, expires_at |-> token.ExpiresAt, is_used |-> token.IsUsed,
     updated_at |-> dbNow]

InsertedRow(id, token) ==
    [id |-> id, user_id |-> token.UserID, token_hash |-> token.TokenHash,
     user_agent |-> token.UserAgent, ip_address |-> token.IPAddress,
     created_at |-> dbNow, expires_at |-> token.ExpiresAt, is_used |-> FALSE,
     updated_at |-> dbNow]

Scan(r) ==
    [ID |-> r.id, UserID |-> r.user_id, TokenHash |-> r.token_hash,
     UserAgent |-> r.user_agent, IPAddress |-> r.ip_address, CreatedAt |-> r.created_at,
     ExpiresAt |-> r.expires_at, IsUsed |-> r.is_used, UpdatedAt |-> r.updated_at]

MaxIDPlusOne ==
    IF DOMAIN rows = {} THEN 1
    ELSE (CHOOSE m \in DOMAIN rows : \A o \in DOMAIN rows : o <= m) + 1

(* id SERIAL: the next value of the sequence, which never goes back *)
AssignedID == nextID

Create(token, fault) ==
    /\ nextID <= MaxTokens
    /\ IF fault = "prepare"
       THEN /\ last' = Call("Create", [token |-> token], fault, [token |-> token],
                            Errorf("failed to prepare query: ", DbErr),
                            <<"Prepare">>, <<"Error">>)
            /\ UNCHANGED <<rows, nextID>>
       ELSE IF fault = "exec"
       THEN /\ last' = Call("Create", [token |-> token], fault, [token |-> token], DbErr,
                            <<"Prepare", "Query">>, <<"Error">>)
            /\ UNCHANGED <<rows, nextID>>
       ELSE LET row == InsertedRow(AssignedID, token)
            IN  /\ rows' = Put(rows, row.id, row)
                /\ nextID' = nextID + 1
                /\ last' = Call("Create", [token |-> token], fault,
                                [token |-> [token EXCEPT !.ID = row.id,
                                                         !.CreatedAt = row.created_at,
                                                         !.UpdatedAt = row.updated_at]],
                                Nil, <<"Prepare", "Query">>, <<"Info">>)
    /\ UNCHANGED <<dbNow, marked, cacheVars, procVars, setupVars>>

ActiveIgnoringUsed(r) == r.expires_at > dbNow

Active(r) == r.expires_at > dbNow /\ r.is_used = FALSE

ActiveIDs(userID) == {id \in DOMAIN rows : rows[id].user_id = userID /\ Active(rows[id])}

FirstByCreatedAsc(ids) == {id \in ids : \A o \in ids : rows[o].created_at >= rows[id].created_at}

FirstByCreatedDesc(ids) == {id \in ids : \A o \in ids : rows[o].created_at <= rows[id].created_at}

GetActiveByUserID(userID, fault) ==
    /\ IF fault # "none"
       THEN last' = Call("GetActiveByUserID", [userID |-> userID], fault, NoResult,
                         Errorf("failed to get refresh token: ", DbErr), <<"Get">>, <<>>)
       ELSE IF ActiveIDs(userID) = {}
       THEN last' = Call("GetActiveByUserID", [userID |-> userID], fault, NoResult,
                         Errorf("no active refresh token found for user ", userID),
                         <<"Get">>, <<>>)
       ELSE \E id \in FirstByCreatedDesc(ActiveIDs(userID)) :
               last' = Call("GetActiveByUserID", [userID |-> userID], fault,
                            [token |-> Scan(rows[id])], Nil, <<"Get">>, <<>>)
    /\ UNCHANGED <<repoVars, cacheVars, procVars, setupVars>>

GetByID(id, fault) ==
    /\ IF fault # "none"
       THEN last' = Call("GetByID", [id |-> id], fault, NoResult,
                         Errorf("failed to get refresh token: ", DbErr), <<"Get">>, <<>>)
       ELSE IF id \notin DOMAIN rows
       THEN last' = Call("GetByID", [id |-> id], fault, NoResult,
                         "refresh token with id " \o ToString(id) \o " not found",
                         <<"Get">>, <<>>)
       ELSE last' = Call("GetByID", [id |-> id], fault, [token |-> Scan(rows[id])], Nil,
                         <<"Get">>, <<>>)
    /\ UNCHANGED <<repoVars, cacheVars, procVars, setupVars>>

MarkAsUsed(tokenID, fault) ==
    /\ IF fault # "none"
       THEN /\ last' = Call("MarkAsUsed", [id |-> tokenID], fault, NoResult,
                            Errorf("failed to mark token as used: ", DbErr),
                            <<"Exec">>, <<"Error">>)
            /\ UNCHANGED <<rows, marked>>
       ELSE IF tokenID \notin DOMAIN rows
       THEN /\ last' = Call("MarkAsUsed", [id |-> tokenID], fault, NoResult,
                            "token with id " \o ToString(tokenID) \o " not found",
                            <<"Exec">>, <<"Warn">>)
            /\ UNCHANGED <<rows, marked>>
       ELSE /\ rows' = [rows EXCEPT ![tokenID].is_used = TRUE, ![tokenID].updated_at = dbNow]
            /\ marked' = marked \cup {tokenID}
            /\ last' = Call("MarkAsUsed", [id |-> tokenID], fault, NoResult, Nil,
                            <<"Exec">>, <<"Info">>)
    /\ UNCHANGED <<dbNow, nextID, cacheVars, procVars, setupVars>>

OwnedAndUnused(r, userID) == r.user_id = userID /\ r.is_used = FALSE

OwnedBy(r, userID) == r.user_id = userID

DeleteAllByUserID(userID, fault) ==
    /\ IF fault # "none"
       THEN /\ last' = Call("DeleteAllByUserID", [userID |-> userID], fault, NoResult,
                            Errorf("failed to delete tokens for user " \o userID \o ": ", DbErr),
                            <<"Exec">>, <<>>)
            /\ UNCHANGED rows
       ELSE /\ rows' = [id \in {x \in DOMAIN rows : ~OwnedBy(rows[x], userID)} |-> rows[id]]
            /\ last' = Call("DeleteAllByUserID", [userID |-> userID], fault, NoResult, Nil,
                            <<"Exec">>, <<>>)
    /\ marked' = marked \cap DOMAIN rows'
    /\ UNCHANGED <<dbNow, nextID, cacheVars, procVars, setupVars>>

RowsWithID(id) == IF id \in DOMAIN rows THEN 1 ELSE 0

NoRowsAffectedUnchecked(n) == n < 0

NoRowsAffected(n) == n = 0

Delete(tokenID, fault) ==
    /\ IF fault # "none"
       THEN /\ last' = Call("Delete", [id |-> tokenID], fault, NoResult,
                            Errorf("failed to delete token: ", DbErr), <<"Exec">>, <<"Error">>)
            /\ UNCHANGED rows
       ELSE IF NoRowsAffected(RowsWithID(tokenID))
       THEN /\ last' = Call("Delete", [id |-> tokenID], fault, NoResult,
                            "token with id " \o ToString(tokenID) \o " not found",
                            <<"Exec">>, <<"Warn">>)
            /\ UNCHANGED rows
       ELSE /\ rows' = Drop(rows, tokenID)
            /\ last' = Call("Delete", [id |-> tokenID], fault, NoResult, Nil, <<"Exec">>, <<"Info">>)
    /\ marked' = marked \cap DOMAIN rows'
    /\ UNCHANGED <<dbNow, nextID, cacheVars, procVars, setupVars>>

PastOrAtExpiry(r) == r.expires_at <= dbNow

PastExpiry(r) == r.expires_at < dbNow

CleanExpired(fault) ==
    /\ IF fault # "none"
       THEN /\ last' = Call("CleanExpired", NoArgs, fault, [count |-> 0],
                            Errorf("failed to clean expired tokens: ", DbErr), <<"Exec">>, <<>>)
            /\ UNCHANGED rows
       ELSE LET gone == {id \in DOMAIN rows : PastExpiry(rows[id])}
            IN  /\ rows' = [id \in DOMAIN rows \ gone |-> rows[id]]
                /\ last' = Call("CleanExpired", NoArgs, fault, [count |-> Cardinality(gone)], Nil,
                                <<"Exec">>, <<>>)
    /\ marked' = marked \cap DOMAIN rows'
    /\ UNCHANGED <<dbNow, nextID, cacheVars, procVars, setupVars>>

OrderedByCreatedAsc(seq) ==
    \A i, j \in DOMAIN seq : i < j => rows[seq[i]].created_at <= rows[seq[j]].created_at

OrderedByCreatedDesc(seq) ==
    \A i, j \in DOMAIN seq : i < j => rows[seq[i]].created_at >= rows[seq[j]].created_at

Orderings(ids) ==
    {seq \in [1..Cardinality(ids) -> ids] :
        /\ \A i, j \in DOMAIN seq : i # j => seq[i] # seq[j]
        /\ OrderedByCreatedDesc(seq)}

GetAllActiveByUserID(userID, fault) ==
    /\ IF fault # "none"
       THEN last' = Call("GetAllActiveByUserID", [userID |-> userID], fault, [tokens |-> <<>>],
                         Errorf("failed to get active tokens for user " \o userID \o ": ", DbErr),
                         <<"Select">>, <<>>)
       ELSE \E seq \in Orderings(ActiveIDs(userID)) :
               last' = Call("GetAllActiveByUserID", [userID |-> userID], fault,
                            [tokens |-> [i \in DOMAIN seq |-> Scan(rows[seq[i]])]],
                            Nil, <<"Select">>, <<>>)
    /\ UNCHANGED <<repoVars, cacheVars, procVars, setupVars>>

DbTick ==
    /\ dbNow < MaxDbTime
    /\ dbNow' = dbNow + 1
    /\ last' = Call("DbTick", NoArgs, "none", NoResult, Nil, <<>>, <<>>)
    /\ UNCHANGED <<rows, nextID, marked, cacheVars, procVars, setupVars>>

(* The statements of Create, GetByID and DeleteAllByUserID are taken to     *)
(* execute here; the other queries and updates can also fail.               *)
NextRepo ==
    \/ \E t \in NewTokens : Create(t, "none")
    \/ \E u \in RepoUsers, f \in Faults : GetActiveByUserID(u, f)
    \/ \E id \in RowIDs : GetByID(id, "none")
    \/ \E id \in RowIDs, f \in Faults : MarkAsUsed(id, f)
    \/ \E u \in RepoUsers : DeleteAllByUserID(u, "none")
    \/ \E id \in RowIDs, f \in Faults : Delete(id, f)
    \/ \E f \in Faults : CleanExpired(f)
    \/ \E u \in RepoUsers, f \in Faults : GetAllActiveByUserID(u, f)
    \/ DbTick

SpecRepo == Init /\ [][NextRepo]_vars

---------------------------------------------------------------------------
(* Specification of the repository on a database that RunMigrations         *)
(* provisions.  A statement that names a relation the database lacks fails  *)
(* (Create when it is prepared).                                            *)

RunMigrations(fault) ==
    /\ IF fault # "none"
       THEN /\ last' = Call("RunMigrations", NoArgs, fault, NoResult, DbErr, <<"Up">>, <<>>)
            /\ UNCHANGED schema
       ELSE IF VersionRelation \in schema
       THEN /\ last' = Call("RunMigrations", NoArgs, fault, NoResult, Nil, <<"Up">>, <<>>)
            /\ UNCHANGED schema
       ELSE /\ schema' = schema \cup MigrationUp \cup {VersionRelation}
            /\ last' = Call("RunMigrations", NoArgs, fault, NoResult, Nil, <<"Up">>, <<>>)
    /\ UNCHANGED <<cacheVars, repoVars, procVars, conf>>

StatementFault(op) ==
    IF Needs(op) \subseteq schema THEN "none"
    ELSE IF op = "Create" THEN "prepare" ELSE "down"

InitEmptyDb == Start(EmptyDatabase, ProcessStart(NoEnviron, NoFile))

NextMigrate ==
    \/ \E f \in Faults : RunMigrations(f)
    \/ \E t \in NewTokens : Create(t, StatementFault("Create"))
    \/ \E u \in RepoUsers : GetActiveByUserID(u, StatementFault("GetActiveByUserID"))
    \/ \E id \in RowIDs : GetByID(id, StatementFault("GetByID"))
    \/ \E id \in RowIDs : MarkAsUsed(id, StatementFault("MarkAsUsed"))
    \/ \E u \in RepoUsers : DeleteAllByUserID(u, StatementFault("DeleteAllByUserID"))
    \/ \E id \in RowIDs : Delete(id, StatementFault("Delete"))
    \/ CleanExpired(StatementFault("CleanExpired"))
    \/ \E u \in RepoUsers : GetAllActiveByUserID(u, StatementFault("GetAllActiveByUserID"))
    \/ DbTick

SpecMigrate == InitEmptyDb /\ [][NextMigrate]_vars

---------------------------------------------------------------------------
(* Specification of the facade and the repository side by side: every      *)
(* operation of both, with the failures of each request.                    *)

CallToken == "t1"
CallUser == "u"
CallPair == <<"u", "x">>
CallExpiresAt == {now - TickStep, now + TickStep}
CallRepoUser == "user-1"
CallNewTokens == {t \in NewTokens : t.UserID = CallRepoUser /\ ~t.IsUsed /\ t.ExpiresAt > dbNow}
CreateFaults == {"none", "prepare", "exec"}

NextCalls ==
    \/ \E e \in CallExpiresAt, f \in Faults : BlacklistToken(CallToken, e, f)
    \/ \E f \in Faults : IsTokenBlacklisted(CallToken, f)
    \/ \E f \in Faults : BlacklistUser(CallUser, TickStep, f)
    \/ \E f \in Faults : IsUserBlacklisted(CallUser, f)
    \/ \E f \in PipelineFaults : LogIPAttempt(CallPair[1], CallPair[2], f)
    \/ \E f \in Faults : GetIPAttempts(CallPair[1], CallPair[2], f)
    \/ \E t \in CallNewTokens, f \in CreateFaults : Create(t, f)
    \/ \E f \in Faults : GetActiveByUserID(CallRepoUser, f)
    \/ \E id \in RowIDs, f \in Faults : GetByID(id, f)
    \/ \E id \in RowIDs, f \in Faults : MarkAsUsed(id, f)
    \/ \E f \in Faults : DeleteAllByUserID(CallRepoUser, f)
    \/ \E id \in RowIDs, f \in Faults : Delete(id, f)
    \/ \E f \in Faults : CleanExpired(f)
    \/ \E f \in Faults : GetAllActiveByUserID(CallRepoUser, f)

SpecCalls == Init /\ [][NextCalls]_vars

---------------------------------------------------------------------------
(* Properties of the JWT support cache *)

\* C1: after a successful BlacklistToken(tokenID, expiresAt) with expiresAt
\* ahead, the entry is present and IsTokenBlacklisted(tokenID) returns true at
\* every moment before expiresAt and false from expiresAt on; no other facade
\* operation (BlacklistUser, LogIPAttempt, GetIPAttempts, Is*Blacklisted)
\* removes or creates the entry.
C1_BlacklistedUntilExpiry ==
    /\ \A t \in TokenIDs : Live(store, TokenKey(t)) <=> blTok[t] > now
    /\ last.op = "IsTokenBlacklisted" /\ last.fault = "none"
           => last.err = Nil /\ last.ret.exists = (blTok[last.args.tokenID] > now)

C1_Witness ==
    /\ last.op = "IsTokenBlacklisted" /\ last.fault = "none" /\ last.ret.exists
    /\ now > 0
    /\ blTok[last.args.tokenID] > now
    /\ \E u \in UserIDs : Live(store, UserKey(u))
    /\ \E p \in QuietPairs : Live(store, IPKey(p[1], p[2]))

\* C2: BlacklistToken with expiresAt not after the current time returns
\* success, issues no adapter call and leaves the store unchanged, an existing
\* entry of that token included.
C2_ExpiredTokenNoWrite ==
    [][last'.op = "BlacklistToken" /\ last'.args.expiresAt <= now
          => last'.err = Nil /\ last'.calls = <<>> /\ store' = store]_vars

C2_Witness ==
    /\ last.op = "BlacklistToken" /\ last.args.expiresAt <= now
    /\ last.err = Nil
    /\ Live(store, TokenKey(last.args.tokenID))

C4_AbsentCounterIsZero ==
    last.op = "GetIPAttempts" /\ last.fault = "none"
    /\ ~Live(store, IPKey(last.args.userID, last.args.ipAddress))
        => last.ret.count = 0 /\ last.err = Nil

C4_Witness ==
    /\ last.op = "GetIPAttempts" /\ last.fault = "none"
    /\ last.args.userID = "u:1"
    /\ ~Live(store, IPKey(last.args.userID, last.args.ipAddress))
    /\ last.ret.count = 0 /\ last.err = Nil
    /\ now >= IPAttemptTTL

IsBase10Integer(v) ==
    /\ v # <<>>
    /\ LET body == IF v[1] \in {"+", "-"} THEN Tail(v) ELSE v
       IN  body # <<>> /\ \A i \in 1..Len(body) : IsDigit(body[i])

IsZeroText(v) ==
    /\ IsBase10Integer(v)
    /\ \A i \in 1..Len(v) : v[i] \in {"+", "-", "0"}

\* C5: GetIPAttempts returns a zero count with no error only when the counter
\* key is absent or the stored text is a base-10 integer equal to 0; a stored
\* text that is not a base-10 integer yields an error, and so does a failure
\* of the adapter's Get other than key absence.
C5_ZeroOnlyWhenAbsentOrZero ==
    last.op = "GetIPAttempts" =>
        LET k == IPKey(last.args.userID, last.args.ipAddress)
        IN  /\ last.ret.count = 0 /\ last.err = Nil
                => last.fault = "none" /\ (~Live(store, k) \/ IsZeroText(store[k].val))
            /\ Live(store, k) /\ ~IsBase10Integer(store[k].val) => last.err # Nil
            /\ last.fault # "none" => last.err # Nil

C5_Witness ==
    /\ last.op = "GetIPAttempts" /\ last.fault = "none"
    /\ Live(store, IPKey(last.args.userID, last.args.ipAddress))
    /\ store[IPKey(last.args.userID, last.args.ipAddress)].val = <<"2", "x">>
    /\ last.err = Errorf("failed to parse IP attempts count: ", "invalid syntax")

FacadeKeys ==
    {TokenKey(t) : t \in TokenIDs} \cup {UserKey(u) : u \in UserIDs} \cup IPKeys

\* C14: every key the facade has written (token-blacklist entry,
\* user-blacklist entry, IP-attempt counter) that is present carries an expiry,
\* whatever durations the callers of BlacklistUser supplied.
C14_FacadeKeysCarryTTL ==
    \A k \in FacadeKeys : Live(store, k) => store[k].hasTTL

\* C20: after a successful BlacklistUser(userID, duration) the user-blacklist
\* entry expires exactly duration after the call, and IsUserBlacklisted(userID)
\* returns whether the entry is present: true until then, false afterwards.
C20_UserBlacklistedForDuration ==
    [][/\ last'.op = "BlacklistUser" /\ last'.err = Nil
             => LET k == UserKey(last'.args.userID)
                IN  /\ k \in DOMAIN store'
                    /\ store'[k].hasTTL
                    /\ store'[k].exp = now + last'.args.duration
       /\ last'.op = "IsUserBlacklisted" /\ last'.fault = "none"
             => /\ last'.err = Nil
                /\ last'.ret.exists = Live(store', UserKey(last'.args.userID))]_vars

---------------------------------------------------------------------------
(* Properties of the cache adapter and of concurrent callers *)

Incremented == {c \in Callers : proc[c].op = "LogIPAttempt" /\ proc[c].pc \in {"incremented", "done"}}

\* C15: when callers run LogIPAttempt on one pair at the same time, starting
\* from an absent counter and all succeeding, no increment is lost: the
\* counter equals the number of increments executed (N once all N have run)
\* and the callers observe distinct values in 1..N, whatever the interleaving.
C15_NoLostIncrement ==
    LET key == IPKey(SharedPair[1], SharedPair[2])
        n == Cardinality(Incremented)
    IN  /\ n = 0 => ~Live(store, key)
        /\ n > 0 => Live(store, key) /\ store[key].val = Itoa(n)
        /\ \A c \in Incremented : proc[c].n \in 1..n
        /\ \A c, d \in Incremented : c # d => proc[c].n # proc[d].n
        /\ (\E c \in Callers : proc[c].op = "LogIPAttempt" /\ proc[c].pc = "done")
              => store[key].hasTTL /\ store[key].exp = now + IPAttemptTTL

C15_Witness ==
    /\ \A c \in Callers : proc[c].op = "LogIPAttempt"
    /\ Cardinality(Incremented) = NumCallers
    /\ proc[1].n = NumCallers /\ proc[1].pc = "incremented"
    /\ proc[NumCallers].n = 1 /\ proc[NumCallers].pc = "done"
    /\ store[IPKey(SharedPair[1], SharedPair[2])].val = Itoa(NumCallers)

CounterAt(s, key) == IF Live(s, key) THEN ParseInt(s[key].val).n ELSE 0

NoKeyOutlivesItsTTL == \A k \in DOMAIN store : store[k].hasTTL => store[k].exp > now

Winners == {c \in Callers : proc[c].op = "SetNX" /\ proc[c].pc = "done" /\ proc[c].won}

\* C17: SetNX(key, value, ttl) writes the value with its TTL and returns true
\* exactly when the key is absent; on a present key it returns false with no
\* error and leaves value and TTL as they were.  Of the callers that run SetNX
\* at the same time on an absent key exactly one gets true.
C17_SetNXOnlyWhenAbsent ==
    [][/\ last'.op = "SetNX" /\ last' # last
             => LET k == last'.args.key
                IN  /\ last'.err = Nil
                    /\ last'.ret.ok = ~Live(store, k)
                    /\ IF Live(store, k)
                       THEN store' = store
                       ELSE store'[k] = Entry(last'.args.value, last'.args.ttl)
       /\ Cardinality(Winners') =
             IF \E c \in Callers : proc'[c].op = "SetNX" /\ proc'[c].pc = "done" THEN 1 ELSE 0
       /\ \A c \in Winners' : store'[SharedKey].val = CallerValue(c)]_vars

C17_Witness ==
    /\ \A c \in Callers : proc[c].op = "SetNX" /\ proc[c].pc = "done"
    /\ Winners = {NumCallers}
    /\ last.op = "SetNX" /\ ~last.ret.ok /\ last.args.ttl # proc[NumCallers].ttl
    /\ store[SharedKey] = Entry(CallerValue(NumCallers), TickStep)

\* C18: a successful Increment(key) returns the integer at the key plus one
\* (1 when the key was absent) and stores it; the expiry of the key is what
\* it was before the call, and a key created by Increment has none.
C18_IncrementKeepsTTL ==
    [][last'.op = "Increment" /\ last'.err = Nil
          => LET k == last'.args.key
                 n == CounterAt(store, k) + 1
             IN  /\ last'.ret.count = n
                 /\ k \in DOMAIN store'
                 /\ store'[k].val = Itoa(n)
                 /\ IF Live(store, k)
                    THEN store'[k].hasTTL = store[k].hasTTL /\ store'[k].exp = store[k].exp
                    ELSE ~store'[k].hasTTL
                 /\ \A o \in DOMAIN store \ {k} : o \in DOMAIN store' /\ store'[o] = store[o]]_vars

C18_Witness ==
    /\ last.op = "Increment" /\ last.err = Nil
    /\ last.ret.count = 3
    /\ store[last.args.key].hasTTL
    /\ store[last.args.key].exp = now + TickStep
    /\ \E k \in AdapterKeys : Live(store, k) /\ ~store[k].hasTTL /\ store[k].val = Itoa(2)

KeyNotFound(key) == Errorf("key not found: ", key)

\* C19: a successful Set(key, value, ttl) stores exactly the text given, with
\* the TTL given; Get returns the stored text of a present key, so the text
\* of the latest Set until the key expires, is overwritten or deleted; Get on
\* an absent or expired key fails with "key not found: <key>", and any other
\* failure of Get is an error that is not that one.
C19_SetGetRoundTrip ==
    [][/\ last'.op = "Set" /\ last'.err = Nil
             => LET k == last'.args.key
                IN  /\ k \in DOMAIN store'
                    /\ store'[k] = Entry(last'.args.value, last'.args.ttl)
                    /\ \A o \in DOMAIN store \ {k} : o \in DOMAIN store' /\ store'[o] = store[o]
       /\ last'.op = "Get" /\ last'.fault = "none"
             => IF Live(store, last'.args.key)
                THEN last'.err = Nil /\ last'.ret.value = store[last'.args.key].val
                ELSE last'.err = KeyNotFound(last'.args.key)
       /\ last'.op = "Get" /\ last'.fault # "none"
             => last'.err \notin {Nil, KeyNotFound(last'.args.key)}
       /\ last.op = "Set" /\ last.err = Nil
          /\ last'.op = "Get" /\ last'.fault = "none" /\ last'.args.key = last.args.key
             => last'.err = Nil /\ last'.ret.value = last.args.value
       /\ NoKeyOutlivesItsTTL']_vars

C19_Witness ==
    /\ last.op = "Get" /\ last.err = Nil
    /\ last.ret.value = <<"a">>
    /\ now > 0
    /\ store[last.args.key] = [val |-> <<"a">>, hasTTL |-> TRUE, exp |-> now + TickStep]
    /\ \E k \in AdapterKeys : ~Live(store, k)

---------------------------------------------------------------------------
(* Properties of the refresh-token repository *)

NotFoundByID(id) == "token with id " \o ToString(id) \o " not found"

ActiveSet(userID) ==
    {id \in DOMAIN rows :
        /\ rows[id].user_id = userID
        /\ ~rows[id].is_used
        /\ rows[id].expires_at > dbNow}

\* C6: the used flag of a token changes from false to true exactly once:
\* only MarkAsUsed changes it, it never returns to false, and a token that is
\* already used is not marked as used a second time (MarkAsUsed on it does
\* not succeed and does not touch the row).
C6_UsedSetExactlyOnce ==
    [][/\ \A id \in DOMAIN rows \cap DOMAIN rows' :
             /\ rows[id].is_used => rows'[id].is_used
             /\ rows[id].is_used # rows'[id].is_used => last'.op = "MarkAsUsed"
       /\ last'.op = "MarkAsUsed" /\ last'.fault = "none"
          /\ last'.args.id \in DOMAIN rows /\ rows[last'.args.id].is_used
             => last'.err # Nil /\ rows' = rows]_vars

C7_ReturnsNoMarkedToken ==
    /\ last.op = "GetActiveByUserID" /\ last.err = Nil => last.ret.token.ID \notin marked
    /\ last.op = "GetAllActiveByUserID" /\ last.err = Nil
           => \A i \in DOMAIN last.ret.tokens : last.ret.tokens[i].ID \notin marked

\* C7: MarkAsUsed(id) returns the not-found error and changes no row when no
\* token has that id; when a token with that id exists it succeeds and sets the
\* flag, and no later GetActiveByUserID or GetAllActiveByUserID returns a token
\* for which MarkAsUsed has succeeded.
C7_MarkAsUsedExcludes ==
    [][/\ last'.op = "MarkAsUsed" /\ last'.fault = "none"
             => IF last'.args.id \in DOMAIN rows
                THEN /\ last'.err = Nil
                     /\ rows'[last'.args.id].is_used
                     /\ last'.args.id \in marked'
                ELSE /\ last'.err = NotFoundByID(last'.args.id)
                     /\ rows' = rows
       /\ C7_ReturnsNoMarkedToken']_vars

C7_Witness ==
    /\ last.op = "GetAllActiveByUserID" /\ last.err = Nil
    /\ Len(last.ret.tokens) >= 1
    /\ \E id \in marked :
          /\ rows[id].user_id = last.args.userID
          /\ rows[id].expires_at > dbNow

\* C8: GetActiveByUserID(userID) returns a token of the user that is unused and
\* expires strictly after the store's current time and whose creation time is
\* the latest among such tokens; it returns the "no active refresh token"
\* error exactly when the user has no such token.
C8_LatestActive ==
    last.op = "GetActiveByUserID" /\ last.fault = "none" =>
        LET A == ActiveSet(last.args.userID)
        IN  IF A = {}
            THEN last.err = "no active refresh token found for user " \o last.args.userID
            ELSE /\ last.err = Nil
                 /\ last.ret.token.ID \in A
                 /\ last.ret.token = Scan(rows[last.ret.token.ID])
                 /\ \A o \in A : rows[o].created_at <= last.ret.token.CreatedAt

C8_Witness ==
    /\ last.op = "GetActiveByUserID" /\ last.fault = "none" /\ last.err = Nil
    /\ Cardinality(ActiveSet(last.args.userID)) = 3
    /\ \A a, b \in ActiveSet(last.args.userID) : a # b => rows[a].created_at # rows[b].created_at
    /\ last.ret.token.CreatedAt = 2

\* C9: GetAllActiveByUserID(userID) returns exactly the tokens of the user that
\* are unused and expire strictly after the store's current time, each once,
\* ordered by creation time descending; when there is none it returns an empty
\* sequence and no error.
C9_AllActiveOrdered ==
    last.op = "GetAllActiveByUserID" /\ last.fault = "none" =>
        LET A == ActiveSet(last.args.userID)
        IN  /\ last.err = Nil
            /\ Len(last.ret.tokens) = Cardinality(A)
            /\ {last.ret.tokens[i].ID : i \in DOMAIN last.ret.tokens} = A
            /\ \A i \in DOMAIN last.ret.tokens :
                  last.ret.tokens[i] = Scan(rows[last.ret.tokens[i].ID])
            /\ \A i, j \in DOMAIN last.ret.tokens :
                  i < j => last.ret.tokens[i].CreatedAt >= last.ret.tokens[j].CreatedAt

C9_Witness ==
    /\ last.op = "GetAllActiveByUserID" /\ last.fault = "none" /\ last.err = Nil
    /\ Len(last.ret.tokens) = 2
    /\ last.ret.tokens[1].CreatedAt > last.ret.tokens[2].CreatedAt
    /\ \E id \in DOMAIN rows :
          rows[id].user_id = last.args.userID /\ id \notin ActiveSet(last.args.userID)

\* C10: CleanExpired removes exactly the rows whose expiry is before the
\* store's current time, for every user and whatever the used flag, leaves all
\* other rows unchanged and returns the number of rows removed; a second call
\* directly after it returns 0.
C10_CleanExpiredExact ==
    [][/\ last'.op = "CleanExpired" /\ last'.fault = "none"
             => LET gone == {id \in DOMAIN rows : rows[id].expires_at < dbNow}
                IN  /\ DOMAIN rows' = DOMAIN rows \ gone
                    /\ \A id \in DOMAIN rows' : rows'[id] = rows[id]
                    /\ last'.err = Nil
                    /\ last'.ret.count = Cardinality(gone)
       /\ last.op = "CleanExpired" /\ last.fault = "none"
          /\ last'.op = "CleanExpired" /\ last'.fault = "none"
             => last'.ret.count = 0]_vars

C10_Witness ==
    /\ last.op = "CleanExpired" /\ last.fault = "none"
    /\ last.ret.count = 2
    /\ \E id \in DOMAIN rows : rows[id].expires_at = dbNow

\* C11: GetByID(token.ID) directly after a successful Create returns the
\* caller's token as Create left it: the caller's user id, token hash, user
\* agent, source address and expiry, and the id, creation and update
\* timestamps Create wrote back; the used flag of the returned token is false,
\* so the two are equal in every field when the caller passed IsUsed = false.
C11_RoundTripStoredUnused ==
    [][last.op = "Create" /\ last.err = Nil
       /\ last'.op = "GetByID" /\ last'.fault = "none"
       /\ last'.args.id = last.ret.token.ID
          => /\ last'.err = Nil
             /\ last'.ret.token = [last.ret.token EXCEPT !.IsUsed = FALSE]
             /\ last'.ret.token.ID = nextID - 1
             /\ last.ret.token.UserID = last.args.token.UserID
             /\ last.ret.token.TokenHash = last.args.token.TokenHash
             /\ last.ret.token.UserAgent = last.args.token.UserAgent
             /\ last.ret.token.IPAddress = last.args.token.IPAddress
             /\ last.ret.token.ExpiresAt = last.args.token.ExpiresAt
             /\ last.ret.token.IsUsed = last.args.token.IsUsed]_vars

\* C11 as stated: the token GetByID returns directly after Create equals the
\* caller's token in every field, the used flag included.
C11_RoundTripEveryField ==
    [][last.op = "Create" /\ last.err = Nil
       /\ last'.op = "GetByID" /\ last'.fault = "none"
       /\ last'.args.id = last.ret.token.ID
          => last'.err = Nil /\ last'.ret.token = last.ret.token]_vars

C11_Witness ==
    /\ last.op = "GetByID" /\ last.err = Nil
    /\ last.ret.token.ID = nextID - 1
    /\ last.ret.token.ID > 1
    /\ dbNow > 0
    /\ last.ret.token.CreatedAt = dbNow /\ last.ret.token.UpdatedAt = dbNow
    /\ last.ret.token.ExpiresAt > dbNow
    /\ ~last.ret.token.IsUsed

\* C12: DeleteAllByUserID(userID) removes every row of the user, used or not,
\* expired or not, leaves the rows of every other user unchanged and returns
\* success, also when the user has no row.
C12_DeleteAllByUserIDExact ==
    [][last'.op = "DeleteAllByUserID" /\ last'.fault = "none"
          => /\ last'.err = Nil
             /\ DOMAIN rows' = {id \in DOMAIN rows : rows[id].user_id # last'.args.userID}
             /\ \A id \in DOMAIN rows' : rows'[id] = rows[id]]_vars

C12_Witness ==
    /\ last.op = "DeleteAllByUserID" /\ last.err = Nil
    /\ nextID = MaxTokens + 1
    /\ Cardinality(DOMAIN rows) = 1
    /\ \A id \in DOMAIN rows : rows[id].user_id # last.args.userID /\ rows[id].is_used
    /\ dbNow = MaxDbTime

GetByIDNotFound(id) == "refresh token with id " \o ToString(id) \o " not found"

\* C13: Delete(id) on an existing row succeeds and removes that row and no
\* other, and GetByID(id) directly after it returns not-found; when no row has
\* the id it returns the not-found error, which differs from the error of a
\* failed execution, and removes nothing, so a second Delete of the id fails
\* with not-found.
C13_DeleteByID ==
    [][/\ last'.op = "Delete" /\ last'.fault = "none"
             => IF last'.args.id \in DOMAIN rows
                THEN /\ last'.err = Nil
                     /\ DOMAIN rows' = DOMAIN rows \ {last'.args.id}
                     /\ \A id \in DOMAIN rows' : rows'[id] = rows[id]
                ELSE /\ last'.err = NotFoundByID(last'.args.id)
                     /\ rows' = rows
       /\ last'.op = "Delete" /\ last'.fault # "none"
             => /\ last'.err \notin {Nil, NotFoundByID(last'.args.id)}
                /\ rows' = rows
       /\ last.op = "Delete" /\ last.err = Nil
          /\ last'.op = "GetByID" /\ last'.args.id = last.args.id
             => last'.err = GetByIDNotFound(last.args.id)
       /\ last.op = "Delete" /\ last.fault = "none"
          /\ last'.op = "Delete" /\ last'.fault = "none" /\ last'.args.id = last.args.id
             => last'.err = NotFoundByID(last.args.id)]_vars

C13_Witness ==
    /\ last.op = "Delete" /\ last.fault = "none"
    /\ last.err = NotFoundByID(last.args.id)
    /\ last.args.id < nextID
    /\ Cardinality(DOMAIN rows) = 2

---------------------------------------------------------------------------
(* Properties of the configuration loader *)

FileSupplies(file, member) == file.kind = "document" /\ file.doc[member] # Missing

(* environment first, then the config file, then the default *)
Precedence(environ, file) ==
    [port |->
        IF environ.SERVER_PORT # Unset THEN environ.SERVER_PORT
        ELSE IF FileSupplies(file, "port") THEN file.doc.port.text
        ELSE DefaultPort,
     read_timeout |->
        IF environ.SERVER_READ_TIMEOUT # Unset
        THEN ParseNanoseconds(environ.SERVER_READ_TIMEOUT).d
        ELSE IF FileSupplies(file, "read_timeout") /\ DurationOf(file.doc.read_timeout).ok
        THEN DurationOf(file.doc.read_timeout).d
        ELSE DefaultReadTimeout]

\* C24: GetConfig loads the configuration once, on first use: every field,
\* the Duration fields included, holds the environment variable's value if
\* set, otherwise the config file's value if the file supplies one, otherwise
\* the default; every later call returns the same instance without reloading.
C24_EnvThenFileThenDefault ==
    [][/\ (~conf.done /\ conf'.done) => conf'.globalConfig = Precedence(conf.environ, conf.file)
       /\ conf.done => (conf'.globalConfig = conf.globalConfig /\ conf'.loads = conf.loads)
       /\ (conf.done /\ last'.op = "GetConfig") => last'.ret.config = conf.globalConfig]_vars

---------------------------------------------------------------------------
(* Properties of the migrated schema *)

Migrated == VersionRelation \in schema

\* C23: the schema the migration establishes contains the single table and
\* every column the repository's statements read or write, so that after
\* RunMigrations succeeds on an empty database Create, MarkAsUsed and the
\* Get* queries do not fail for a missing table or column.
C23_MigrationServesStatements ==
    Migrated =>
        /\ \A op \in RepoOps : Needs(op) \subseteq schema
        /\ last.op \in {"Create", "MarkAsUsed", "GetActiveByUserID", "GetByID",
                        "GetAllActiveByUserID"} => last.fault = "none"

---------------------------------------------------------------------------
(* Properties of every operation: logging and requests *)

FacadeOps ==
    {"BlacklistToken", "IsTokenBlacklisted", "BlacklistUser", "IsUserBlacklisted",
     "LogIPAttempt", "GetIPAttempts"}

LoggedAt(level) == \E i \in DOMAIN last.logs : last.logs[i] = level

\* C21: whenever a public operation of the cache adapter, the JWT facade or
\* the refresh-token repository returns an error to its caller, it has
\* emitted a log entry at Error severity before returning.
C21_ErrorsAreLogged == last.err # Nil => LoggedAt("Error")

NoRequestTwice == \A i, j \in DOMAIN last.calls : last.calls[i] = last.calls[j] => i = j

---------------------------------------------------------------------------
(* Further properties of the JWT support cache *)

CountOf(s, pair) == CounterAt(s, IPKey(pair[1], pair[2]))

\* C25: the attempt counters of distinct (userID, ipAddress) pairs are
\* independent: LogIPAttempt on one pair never changes the count of another
\* pair, the key construction maps distinct pairs to distinct keys (also for
\* ids and addresses that contain ':'), and no counter key coincides with a
\* token- or user-blacklist key.
C25_CountersIndependent ==
    [][/\ last'.op = "LogIPAttempt" =>
             \A q \in IPPairs :
                 q # <<last'.args.userID, last'.args.ipAddress>> =>
                     CountOf(store', q) = CountOf(store, q)
       /\ \A p, q \in IPPairs : p # q => IPKey(p[1], p[2]) # IPKey(q[1], q[2])
       /\ \A p \in IPPairs, t \in TokenIDs, u \in UserIDs :
             IPKey(p[1], p[2]) \notin {TokenKey(t), UserKey(u)}]_vars

\* C26: when LogIPAttempt (IncrementWithTTL) returns an error the counter at
\* the key is unchanged, so a failed call never raises the count read later;
\* and a counter left without a TTL regains its TTL on the next successful
\* call.
C26_FailedIncrementNotApplied ==
    [][last'.op = "LogIPAttempt" =>
          LET key == IPKey(last'.args.userID, last'.args.ipAddress)
          IN  /\ last'.err # Nil => CounterAt(store', key) = CounterAt(store, key)
              /\ last'.err = Nil =>
                    /\ key \in DOMAIN store'
                    /\ store'[key].hasTTL
                    /\ store'[key].exp = now + IPAttemptTTL]_vars

Forever == MaxTime + 3 * TickStep
LastsUntil(s, key) == IF s[key].hasTTL THEN s[key].exp ELSE Forever

\* C28: a later blacklist call never shortens an existing blacklist period:
\* after a successful BlacklistToken(t, e2) or BlacklistUser(u, d2) on an
\* entry that an earlier call created, the entry still exists at least until
\* the earlier call's expiry.
C28_BlacklistNeverShortened ==
    [][/\ last'.op = "BlacklistToken" /\ last'.err = Nil /\ Live(store, TokenKey(last'.args.tokenID))
             => /\ TokenKey(last'.args.tokenID) \in DOMAIN store'
                /\ LastsUntil(store', TokenKey(last'.args.tokenID))
                       >= LastsUntil(store, TokenKey(last'.args.tokenID))
       /\ last'.op = "BlacklistUser" /\ last'.err = Nil /\ Live(store, UserKey(last'.args.userID))
             => /\ UserKey(last'.args.userID) \in DOMAIN store'
                /\ LastsUntil(store', UserKey(last'.args.userID))
                       >= LastsUntil(store, UserKey(last'.args.userID))]_vars

---------------------------------------------------------------------------
(* Further properties of the refresh-token repository *)

\* C27: MarkAsUsed distinguishes first use from reuse: of the MarkAsUsed calls
\* on one existing token id at most one receives success, and a MarkAsUsed on
\* a token whose used flag is already true does not report success.
C27_ReuseDoesNotSucceed ==
    [][last'.op = "MarkAsUsed" /\ last'.err = Nil =>
          /\ last'.args.id \notin marked
          /\ ~rows[last'.args.id].is_used]_vars

\* C29: each stored token is either active-eligible by expiry or removable
\* by CleanExpired, never both: CleanExpired never removes a token whose
\* expiry is strictly ahead, and it removes every token whose expiry is not
\* strictly after the store's now, the one expiring exactly now included.
C29_ExpiredOrEligible ==
    [][last'.op = "CleanExpired" /\ last'.err = Nil =>
          \A id \in DOMAIN rows :
              /\ rows[id].expires_at > dbNow => id \in DOMAIN rows'
              /\ ~(rows[id].expires_at > dbNow) => id \notin DOMAIN rows']_vars

\* C30: every token is stored as unused whatever the caller passes: after a
\* successful Create the stored row has used = false even when the caller's
\* token had IsUsed = true, Create does not write the used flag back into the
\* caller's token, and the identifier differs from that of every token
\* created before, also after deletions.
C30_StoredUnusedUnderFreshID ==
    [][last'.op = "Create" /\ last'.err = Nil =>
          LET id == last'.ret.token.ID
          IN  /\ id \in DOMAIN rows' /\ id \notin DOMAIN rows
              /\ rows'[id].is_used = FALSE
              /\ last'.ret.token.IsUsed = last'.args.token.IsUsed
              /\ \A o \in DOMAIN rows : o < nextID
              /\ id >= nextID /\ id < nextID'
              /\ \A o \in DOMAIN rows : rows'[o] = rows[o]]_vars

C30_Witness ==
    /\ last.op = "Create" /\ last.err = Nil
    /\ last.args.token.IsUsed
    /\ last.ret.token.IsUsed
    /\ ~rows[last.ret.token.ID].is_used
    /\ \E o \in 1..(last.ret.token.ID - 1) : o \notin DOMAIN rows

====
